---- MODULE Spec2Model ----
(***************************************************************************)
(* Wine recommender backend: request handlers of src/app.py (the legacy    *)
(* stand-alone application) and of the blueprint src/routes/wine_routes.py *)
(* with the services they call.  Every handler is one atomic action whose  *)
(* inputs (the JSON body, the replies of the external index and model)     *)
(* are drawn from bounded sets.                                            *)
(*                                                                         *)
(* Numbers.  A JSON number is an int (field n is its value) or a float     *)
(* (field n is its value in tenths, 125 is 12.5).  A distance returned by  *)
(* the index is an integer; a score is an exact fraction <<num, den>> in   *)
(* lowest terms with den > 0 (floating-point rounding is not modelled).    *)
(* A string that the code inspects by character is a sequence of ASCII     *)
(* codes; keys and identifiers the code only compares are TLA+ strings.    *)
(***************************************************************************)
EXTENDS Integers, Sequences, FiniteSets, TLC

VARIABLES
    app,            \* which application runs: "app" (src/app.py) or "factory" (create_app)
    phase,          \* "boot", "idle" (waiting for a request), "done" (response sent)
    model_service,  \* WineService.model_service is not None
    embeddings_service, \* WineService.embeddings_service: None or a loaded store
    route,          \* the handler that served the last request
    request,        \* its JSON body
    model_reply,    \* what the model endpoint answered, when called
    index_reply,    \* what the index answered, when called
    ocr_reply,      \* what the Vision API answered, when called
    load,           \* outcome of the last EmbeddingsService construction
    workers,        \* the requests handled concurrently, one per worker thread
    response        \* the response sent

vars == <<app, phase, model_service, embeddings_service, route, request, model_reply,
          index_reply, ocr_reply, load, workers, response>>

(***************************************************************************)
(* Bounds of the model.                                                    *)
(***************************************************************************)
\* longest neighbor list the index returns in the model
MaxNeighbors == 3
\* longest list of wine ids a scoring request carries
MaxIds == 2
\* most lines of the embeddings file
MaxLines == 2

(***************************************************************************)
(* JSON values.                                                            *)
(***************************************************************************)
JInt(n) == [t |-> "int", n |-> n, s |-> <<>>]
JFloat(tenths) == [t |-> "float", n |-> tenths, s |-> <<>>]
JStr(s) == [t |-> "str", n |-> 0, s |-> s]
JBool(b) == [t |-> "bool", n |-> IF b THEN 1 ELSE 0, s |-> <<>>]

\* the value of a JSON number in tenths
Tenths(j) == IF j.t = "int" THEN 10 * j.n ELSE j.n

\* Python float(x) of a JSON number
ToFloat(j) == JFloat(Tenths(j))

\* Python int(x) of a JSON number: truncation toward zero
ToInt(j) ==
    IF j.t = "int" THEN j
    ELSE IF j.n >= 0 THEN JInt(j.n \div 10) ELSE JInt(-((-j.n) \div 10))

\* str.lower() on ASCII codes
Lower(s) == [i \in DOMAIN s |-> IF s[i] \in 65..90 THEN s[i] + 32 ELSE s[i]]

sRed == <<82, 101, 100>>
sWhite == <<87, 104, 105, 116, 101>>
sRose == <<82, 111, 115, 101>>
sSparkling == <<83, 112, 97, 114, 107, 108, 105, 110, 103>>
s_rose == <<114, 111, 115, 101>>
s_sparkling == <<115, 112, 97, 114, 107, 108, 105, 110, 103>>
s_white == <<119, 104, 105, 116, 101>>
\* other casings and a type outside the enum, as request inputs
sROSE == <<82, 79, 83, 69>>
sRED == <<82, 69, 68>>
sMerlot == <<77, 101, 114, 108, 111, 116>>

(***************************************************************************)
(* JSON Schema (draft 7) as jsonschema.validate applies it to an object.   *)
(* A property schema: its type, an enum (used when hasEnum), a minimum and *)
(* a maximum (used when hasMin, hasMax).                                   *)
(***************************************************************************)
Prop(type, hasEnum, enum, hasMin, min, hasMax, max) ==
    [type |-> type, hasEnum |-> hasEnum, enum |-> enum,
     hasMin |-> hasMin, min |-> min, hasMax |-> hasMax, max |-> max]

PString(enum) == Prop("string", TRUE, enum, FALSE, 0, FALSE, 0)
PInteger(min, max) == Prop("integer", FALSE, {}, TRUE, min, TRUE, max)
PNumber == Prop("number", FALSE, {}, FALSE, 0, FALSE, 0)
PNumberMin(min) == Prop("number", FALSE, {}, TRUE, min, FALSE, 0)
PNumberRange(min, max) == Prop("number", FALSE, {}, TRUE, min, TRUE, max)

\* draft 7 "type": a bool is neither integer nor number; a float with a zero
\* fractional part is an integer
IsType(j, type) ==
    CASE type = "string" -> j.t = "str"
      [] type = "number" -> j.t \in {"int", "float"}
      [] type = "integer" -> j.t = "int" \/ (j.t = "float" /\ j.n % 10 = 0)
      [] OTHER -> FALSE

\* minimum and maximum apply to numbers only
InRange(j, p) ==
    j.t \in {"int", "float"} =>
        /\ (p.hasMin => Tenths(j) >= 10 * p.min)
        /\ (p.hasMax => Tenths(j) <= 10 * p.max)

\* enum compares the instance with each listed value, case-sensitively
InEnum(j, p) == p.hasEnum => (j.t = "str" /\ j.s \in p.enum)

ValidProp(j, p) == IsType(j, p.type) /\ InEnum(j, p) /\ InRange(j, p)

\* jsonschema.validate(instance=data, schema=schema) raises no ValidationError
Validates(data, schema) ==
    /\ \A k \in schema.required : k \in DOMAIN data
    /\ (~schema.additionalProperties => DOMAIN data \subseteq DOMAIN schema.properties)
    /\ \A k \in DOMAIN data \cap DOMAIN schema.properties :
            ValidProp(data[k], schema.properties[k])

SimpleKeys == {"type", "body", "dryness", "abv"}

SCHEMA ==
    [properties |->
        [k \in SimpleKeys |->
            CASE k = "type" -> PString({sRed, sWhite, sRose, sSparkling})
              [] k = "body" -> PInteger(1, 5)
              [] k = "dryness" -> PInteger(1, 5)
              [] k = "abv" -> PNumber],
     required |-> SimpleKeys,
     additionalProperties |-> TRUE]

(***************************************************************************)
(* src/app.py parse_wine_vector.  err is "none" or the exception raised.   *)
(***************************************************************************)
Flag(b) == JInt(IF b THEN 1 ELSE 0)

\* variant: the sparkling and white flags change places in the vector
parse_wine_vector_flags_swapped(data) ==
    IF ~Validates(data, SCHEMA)
    THEN [err |-> "ValueError", vec |-> <<>>]
    ELSE LET wine_type == Lower(data["type"].s)
             is_rose == Flag(wine_type = s_rose)
             is_sparkling == Flag(wine_type = s_sparkling)
             is_white == Flag(wine_type = s_white)
         IN  [err |-> "none",
              vec |-> << ToInt(data["body"]), ToFloat(data["abv"]),
                         is_rose, is_white, is_sparkling,
                         ToInt(data["dryness"]) >>]

parse_wine_vector(data) ==
    IF ~Validates(data, SCHEMA)
    THEN [err |-> "ValueError", vec |-> <<>>]
    ELSE LET wine_type == Lower(data["type"].s)
             is_rose == Flag(wine_type = s_rose)
             is_sparkling == Flag(wine_type = s_sparkling)
             is_white == Flag(wine_type = s_white)
         IN  [err |-> "none",
              vec |-> << ToInt(data["body"]), ToFloat(data["abv"]),
                         is_rose, is_sparkling, is_white,
                         ToInt(data["dryness"]) >>]

(***************************************************************************)
(* Scores and Python dicts.                                                *)
(***************************************************************************)
Abs(x) == IF x < 0 THEN -x ELSE x

RECURSIVE Gcd(_, _)
Gcd(a, b) == IF b = 0 THEN a ELSE Gcd(b, a % b)

\* the quotient n / d (d > 0) as a fraction in lowest terms
Frac(n, d) == LET g == Gcd(Abs(n), d) IN <<n \div g, d \div g>>

\* the float literal 1.0
One == <<1, 1>>

\* a raw distance kept as it is
Raw(d) == <<d, 1>>

FracLe(x, y) == x[1] * y[2] <= y[1] * x[2]

EmptyDict == <<>>

\* d[k] = v
DictSet(d, k, v) == [x \in DOMAIN d \cup {k} |-> IF x = k THEN v ELSE d[x]]

\* for k, v in zip(keys, vals): d[k] = v
RECURSIVE ZipAssign(_, _, _)
ZipAssign(d, keys, vals) ==
    IF keys = <<>> \/ vals = <<>> THEN d
    ELSE ZipAssign(DictSet(d, Head(keys), Head(vals)), Tail(keys), Tail(vals))

RECURSIVE MinOf(_)
MinOf(seq) ==
    IF Len(seq) = 1 THEN seq[1]
    ELSE LET m == MinOf(Tail(seq)) IN IF m < seq[1] THEN m ELSE seq[1]

RECURSIVE MaxOf(_)
MaxOf(seq) ==
    IF Len(seq) = 1 THEN seq[1]
    ELSE LET m == MaxOf(Tail(seq)) IN IF m > seq[1] THEN m ELSE seq[1]

(***************************************************************************)
(* The external nearest-neighbor index.  A reply is the outcome of one     *)
(* find_neighbors call: it raises (ok = FALSE) or returns the list         *)
(* nearest_neighbors, holding no entry or one entry (one query is sent)    *)
(* whose neighbors are (datapoint_id, distance) pairs.                     *)
(***************************************************************************)
WineIds == {"w1", "w2"}
Distances == {-1, 0, 1}
Neighbors == [datapoint_id : WineIds, distance : Distances]
NeighborLists == UNION {[1..n -> Neighbors] : n \in 0..MaxNeighbors}

IndexReplies ==
    {[called |-> TRUE, ok |-> FALSE, nearest_neighbors |-> <<>>],
     [called |-> TRUE, ok |-> TRUE, nearest_neighbors |-> <<>>]}
    \cup {[called |-> TRUE, ok |-> TRUE, nearest_neighbors |-> <<l>>] : l \in NeighborLists}

NoIndexCall == [called |-> FALSE, ok |-> FALSE, nearest_neighbors |-> <<>>]

Ids(neighbors) == [i \in DOMAIN neighbors |-> neighbors[i].datapoint_id]
Dists(neighbors) == [i \in DOMAIN neighbors |-> neighbors[i].distance]

(***************************************************************************)
(* Responses.  kind is "result" for a success body and "error" for an      *)
(* error body; vector is the feature vector the handler built (<<>> when   *)
(* none); divs counts the divisions performed; calls lists the calls made  *)
(* to external collaborators, in order.                                    *)
(***************************************************************************)
\* the counts get_embeddings logs; all zero when nothing was logged
NoLog == [requested |-> 0, found |-> 0, missing |-> 0]

Result(wines, scores, vector, divs, calls) ==
    [status |-> 200, kind |-> "result", wines |-> wines, scores |-> scores,
     vector |-> vector, divs |-> divs, calls |-> calls, raised |-> "none",
     text |-> "", log |-> NoLog]

Error(status, vector, calls) ==
    [status |-> status, kind |-> "error", wines |-> <<>>, scores |-> EmptyDict,
     vector |-> vector, divs |-> 0, calls |-> calls, raised |-> "none",
     text |-> "", log |-> NoLog]

\* outcome of a service method called directly: the mapping it returned, or
\* the exception it raised
Returned(mapping, calls) ==
    [status |-> 0, kind |-> "return", wines |-> <<>>, scores |-> mapping,
     vector |-> <<>>, divs |-> 0, calls |-> calls, raised |-> "none",
     text |-> "", log |-> NoLog]

Raised(exception, calls) ==
    [status |-> 0, kind |-> "raise", wines |-> <<>>, scores |-> EmptyDict,
     vector |-> <<>>, divs |-> 0, calls |-> calls, raised |-> exception,
     text |-> "", log |-> NoLog]

\* request.get_json(): no body at all, or a JSON object
NoBody == [present |-> FALSE, obj |-> <<>>]
Body(obj) == [present |-> TRUE, obj |-> obj]

\* Python "not data"
Falsy(data) == ~data.present \/ DOMAIN data.obj = {}

(***************************************************************************)
(* src/app.py: min-max normalization inside get_wine_neighbors.            *)
(***************************************************************************)
\* variant: a tie scores 0.0 instead of 1.0
min_max_scores_tie_zero(wine_neighbors, distances) ==
    IF distances = <<>>
    THEN [scores |-> EmptyDict, divs |-> 0]
    ELSE LET min_dist == MinOf(distances)
             max_dist == MaxOf(distances)
         IN  IF max_dist > min_dist
             THEN [scores |->
                      ZipAssign(EmptyDict, wine_neighbors,
                                [i \in DOMAIN distances |->
                                    Frac(distances[i] - min_dist, max_dist - min_dist)]),
                   divs |-> Len(distances)]
             ELSE [scores |->
                      ZipAssign(EmptyDict, wine_neighbors,
                                [i \in DOMAIN wine_neighbors |-> Frac(0, 1)]),
                   divs |-> 0]

\* variant: the distance is taken as a dissimilarity, (max - d) / (max - min)
min_max_scores_inverted(wine_neighbors, distances) ==
    IF distances = <<>>
    THEN [scores |-> EmptyDict, divs |-> 0]
    ELSE LET min_dist == MinOf(distances)
             max_dist == MaxOf(distances)
         IN  IF max_dist > min_dist
             THEN [scores |->
                      ZipAssign(EmptyDict, wine_neighbors,
                                [i \in DOMAIN distances |->
                                    Frac(max_dist - distances[i], max_dist - min_dist)]),
                   divs |-> Len(distances)]
             ELSE [scores |->
                      ZipAssign(EmptyDict, wine_neighbors,
                                [i \in DOMAIN wine_neighbors |-> One]),
                   divs |-> 0]

min_max_scores(wine_neighbors, distances) ==
    IF distances = <<>>
    THEN [scores |-> EmptyDict, divs |-> 0]
    ELSE LET min_dist == MinOf(distances)
             max_dist == MaxOf(distances)
         IN  IF max_dist > min_dist
             THEN [scores |->
                      ZipAssign(EmptyDict, wine_neighbors,
                                [i \in DOMAIN distances |->
                                    Frac(distances[i] - min_dist, max_dist - min_dist)]),
                   divs |-> IF Len(wine_neighbors) < Len(distances)
                            THEN Len(wine_neighbors) ELSE Len(distances)]
             ELSE [scores |->
                      ZipAssign(EmptyDict, wine_neighbors,
                                [i \in DOMAIN wine_neighbors |-> One]),
                   divs |-> 0]

\* src/app.py: POST /wines of the stand-alone legacy application
get_wine_neighbors(data, idx) ==
    IF Falsy(data) THEN Error(400, <<>>, <<>>)
    ELSE LET p == parse_wine_vector(data.obj) IN
         IF p.err # "none" THEN Error(400, <<>>, <<>>)
         ELSE IF ~idx.ok THEN Error(500, p.vec, <<"index">>)
         ELSE IF idx.nearest_neighbors = <<>>
              THEN Error(500, p.vec, <<"index">>)
              ELSE LET neighbors == idx.nearest_neighbors[1]
                       wine_neighbors == Ids(neighbors)
                       distances == Dists(neighbors)
                       mm == min_max_scores(wine_neighbors, distances)
                   IN  Result(wine_neighbors, mm.scores, p.vec, mm.divs, <<"index">>)

(***************************************************************************)
(* src/schemas/user_schema.py                                              *)
(***************************************************************************)
USER_FEATURE_NAMES ==
    << "rating_mean", "rating_std", "rating_count", "rating_min", "rating_max",
       "wines_tried", "avg_ratings_per_wine", "coefficient_of_variation",
       "red_wine_preference", "white_wine_preference", "sparkling_wine_preference",
       "rose_wine_preference", "dessert_wine_preference", "dessert_port_wine_preference",
       "weighted_abv_preference", "avg_abv_tried", "high_vs_low_abv_preference",
       "very_light_bodied_preference", "light_bodied_preference",
       "medium_bodied_preference", "full_bodied_preference", "very_full_bodied_preference",
       "low_acidity_preference", "medium_acidity_preference", "high_acidity_preference",
       "country_1_preference", "country_2_preference", "country_3_preference",
       "country_4_preference", "country_5_preference",
       "grape_1_preference", "grape_2_preference", "grape_3_preference",
       "grape_4_preference", "grape_5_preference",
       "complexity_preference", "avg_complexity_tried",
       "reserve_preference", "grand_preference",
       "high_rating_proportion", "low_rating_proportion", "rating_entropy",
       "rating_1_proportion", "rating_2_proportion", "rating_3_proportion",
       "rating_4_proportion", "rating_5_proportion",
       "rating_range", "rating_variance", "unique_ratings_count", "rating_skewness",
       "date_range_days", "avg_days_between_ratings", "rating_trend", "rating_frequency" >>

FeatureNames == {USER_FEATURE_NAMES[i] : i \in DOMAIN USER_FEATURE_NAMES}

\* properties with "minimum": 0 and no maximum
FeaturesMin0 ==
    {"rating_std", "rating_count", "wines_tried", "avg_ratings_per_wine",
     "rating_entropy", "rating_range", "rating_variance", "unique_ratings_count",
     "date_range_days", "avg_days_between_ratings", "rating_frequency"}

\* properties with "minimum": 0, "maximum": 5
FeaturesRating == {"rating_min", "rating_max"}

\* properties with "minimum": 0, "maximum": 1
FeaturesProportion ==
    {"high_rating_proportion", "low_rating_proportion", "rating_1_proportion",
     "rating_2_proportion", "rating_3_proportion", "rating_4_proportion",
     "rating_5_proportion"}

\* variant: the schema is left open ("additionalProperties" not set)
USER_FEATURES_SCHEMA_open ==
    [properties |->
        [k \in FeatureNames |->
            CASE k \in FeaturesMin0 -> PNumberMin(0)
              [] k \in FeaturesRating -> PNumberRange(0, 5)
              [] k \in FeaturesProportion -> PNumberRange(0, 1)
              [] OTHER -> PNumber],
     required |-> FeatureNames,
     additionalProperties |-> TRUE]

USER_FEATURES_SCHEMA ==
    [properties |->
        [k \in FeatureNames |->
            CASE k \in FeaturesMin0 -> PNumberMin(0)
              [] k \in FeaturesRating -> PNumberRange(0, 5)
              [] k \in FeaturesProportion -> PNumberRange(0, 1)
              [] OTHER -> PNumber],
     required |-> FeatureNames,
     additionalProperties |-> FALSE]

(***************************************************************************)
(* src/services/model_service.py                                           *)
(***************************************************************************)
\* raises ValueError (FALSE) or returns (TRUE)
validate_user_features(data) == Validates(data, USER_FEATURES_SCHEMA)

\* variant: the names are walked from the last to the first
features_dict_to_vector_reversed(features_dict) ==
    [i \in DOMAIN USER_FEATURE_NAMES |->
        ToFloat(features_dict[USER_FEATURE_NAMES[Len(USER_FEATURE_NAMES) + 1 - i]])]

\* [float(features_dict[name]) for name in USER_FEATURE_NAMES]
features_dict_to_vector(features_dict) ==
    [i \in DOMAIN USER_FEATURE_NAMES |-> ToFloat(features_dict[USER_FEATURE_NAMES[i]])]

preprocess_user_data(data) ==
    IF "rating_mean" \in DOMAIN data
    THEN IF validate_user_features(data)
         THEN [err |-> "none", vec |-> features_dict_to_vector(data)]
         ELSE [err |-> "ValueError", vec |-> <<>>]
    ELSE [err |-> "ValueError", vec |-> <<>>]

(***************************************************************************)
(* The external model endpoint.  A reply is the outcome of one predict     *)
(* call: it raises ("error"), returns no predictions, returns a first      *)
(* prediction that is neither a list nor an array ("bad_format"), or       *)
(* returns an embedding ("ok"), which may be empty.                        *)
(***************************************************************************)
Embeddings == {<<>>, <<1, 0>>}

ModelReplies ==
    {[called |-> TRUE, kind |-> k, embedding |-> <<>>] :
        k \in {"error", "no_predictions", "bad_format"}}
    \cup {[called |-> TRUE, kind |-> "ok", embedding |-> e] : e \in Embeddings}

NoModelCall == [called |-> FALSE, kind |-> "error", embedding |-> <<>>]

\* variant: the endpoint is called before the input is validated
generate_user_embedding_predict_first(user_data, mdl) ==
    LET p == preprocess_user_data(user_data) IN
    IF p.err # "none"
    THEN [err |-> "ValueError", embedding |-> <<>>, vec |-> <<>>, calls |-> <<"model">>]
    ELSE IF mdl.kind = "ok"
         THEN [err |-> "none", embedding |-> mdl.embedding, vec |-> p.vec,
               calls |-> <<"model">>]
         ELSE [err |-> "Exception", embedding |-> <<>>, vec |-> p.vec,
               calls |-> <<"model">>]

\* ModelService.generate_user_embedding: every failure after preprocessing is
\* re-raised as a plain Exception
generate_user_embedding(user_data, mdl) ==
    LET p == preprocess_user_data(user_data) IN
    IF p.err # "none"
    THEN [err |-> "ValueError", embedding |-> <<>>, vec |-> <<>>, calls |-> <<>>]
    ELSE IF mdl.kind = "ok"
         THEN [err |-> "none", embedding |-> mdl.embedding, vec |-> p.vec,
               calls |-> <<"model">>]
         ELSE [err |-> "Exception", embedding |-> <<>>, vec |-> p.vec,
               calls |-> <<"model">>]

(***************************************************************************)
(* src/services/embeddings_service.py.  The store self.embeddings maps a   *)
(* wine id (a string) to what the record's "embedding" field held: a list  *)
(* of numbers, or None for a JSON null.                                    *)
(***************************************************************************)
StoreIds == {"w1", "w2"}
StoredVectors == {<<1, 0>>, <<3, 2>>, <<1, 1, 1>>}

Stored(v) == [null |-> FALSE, vec |-> v]
None == [null |-> TRUE, vec |-> <<>>]

\* The "id" of a record as the JSON text holds it: a string ("7") or a
\* number (7).  str(entry['id']) is the same text without the quotes.
RecordIds ==
    [quoted : {TRUE}, text : StoreIds \cup {"7"}] \cup {[quoted |-> FALSE, text |-> "7"]}

str(id) == id.text

\* A line of the file: empty, text that is not JSON, or a JSON object with
\* some of the fields "id" and "embedding".
BlankLine == [text |-> "blank", entry |-> <<>>]
GarbageLine == [text |-> "garbage", entry |-> <<>>]
ObjectLine(entry) == [text |-> "object", entry |-> entry]

Lines ==
    {BlankLine, GarbageLine,
     ObjectLine([embedding |-> Stored(<<1, 0>>)]),
     ObjectLine([id |-> [quoted |-> TRUE, text |-> "w1"]])}
    \cup {ObjectLine([id |-> i, embedding |-> v]) :
            i \in RecordIds, v \in {Stored(v) : v \in StoredVectors} \cup {None}}

Files == UNION {[1..n -> Lines] : n \in 0..MaxLines}

\* self.gcs_uri: whether it starts with "gs://", and the parts of the rest
\* split at the first "/"
GcsUris ==
    {[gs |-> TRUE, path_parts |-> <<"wines_bucket", "wine-embeddings/embeddings.json">>],
     [gs |-> TRUE, path_parts |-> <<"wines_bucket">>],
     [gs |-> FALSE, path_parts |-> <<"wines_bucket", "wine-embeddings/embeddings.json">>]}

RECURSIVE parse_lines_skipping(_, _)
\* variant of the loop: a line that cannot be parsed is skipped
parse_lines_skipping(embeddings, content) ==
    IF content = <<>> THEN [raised |-> FALSE, embeddings |-> embeddings]
    ELSE LET line == Head(content) IN
         IF line.text = "object" /\ {"id", "embedding"} \subseteq DOMAIN line.entry
         THEN parse_lines_skipping(
                  DictSet(embeddings, str(line.entry["id"]), line.entry["embedding"]),
                  Tail(content))
         ELSE parse_lines_skipping(embeddings, Tail(content))

RECURSIVE parse_lines(_, _)
\* the loop of _load_embeddings: json.loads raises on text that is not JSON,
\* entry['id'] and entry['embedding'] raise KeyError on a missing field
parse_lines(embeddings, content) ==
    IF content = <<>> THEN [raised |-> FALSE, embeddings |-> embeddings]
    ELSE LET line == Head(content) IN
         IF line.text = "blank" THEN parse_lines(embeddings, Tail(content))
         ELSE IF line.text = "garbage" THEN [raised |-> TRUE, embeddings |-> embeddings]
         ELSE IF "id" \notin DOMAIN line.entry
         THEN [raised |-> TRUE, embeddings |-> embeddings]
         ELSE IF "embedding" \notin DOMAIN line.entry
         THEN [raised |-> TRUE, embeddings |-> embeddings]
         ELSE parse_lines(
                  DictSet(embeddings, str(line.entry["id"]), line.entry["embedding"]),
                  Tail(content))

\* EmbeddingsService._load_embeddings on self.embeddings = {}: raises, or
\* leaves self.embeddings filled.  downloaded is whether download_as_text
\* returned; every exception is re-raised.
_load_embeddings(gcs_uri, downloaded, content) ==
    IF ~gcs_uri.gs THEN [raised |-> TRUE, embeddings |-> EmptyDict]
    ELSE IF Len(gcs_uri.path_parts) < 2 THEN [raised |-> TRUE, embeddings |-> EmptyDict]
    ELSE IF ~downloaded THEN [raised |-> TRUE, embeddings |-> EmptyDict]
    ELSE parse_lines(EmptyDict, content)

\* WineService.embeddings_service: None, or an EmbeddingsService
NoEmbeddingsService == [present |-> FALSE, embeddings |-> <<>>]
EmbeddingsService(embeddings) == [present |-> TRUE, embeddings |-> embeddings]

\* self.embeddings.get(wine_id)
get_embedding(embeddings, wine_id) ==
    IF wine_id \in DOMAIN embeddings THEN embeddings[wine_id] ELSE None

\* wine_id in self.embeddings
has_embedding(embeddings, wine_id) == wine_id \in DOMAIN embeddings

RECURSIVE get_embeddings(_, _)
\* result[wine_id] = embedding for every requested id whose embedding is not None
get_embeddings(embeddings, wine_ids) ==
    IF wine_ids = <<>> THEN EmptyDict
    ELSE LET n == Len(wine_ids)
             result == get_embeddings(embeddings, SubSeq(wine_ids, 1, n - 1))
             embedding == get_embedding(embeddings, wine_ids[n])
         IN  IF ~embedding.null THEN DictSet(result, wine_ids[n], embedding.vec)
             ELSE result

\* variant: a looked-up id is taken out of self.embeddings
embeddings_after_get_embeddings_pop(embeddings, wine_ids) ==
    [w \in DOMAIN embeddings \ {wine_ids[i] : i \in DOMAIN wine_ids} |-> embeddings[w]]

\* self.embeddings after get_embeddings returned: the method fills a new
\* dict and assigns nothing to self.embeddings
embeddings_after_get_embeddings(embeddings, wine_ids) == embeddings

\* the "Retrieved embeddings" record: len(wine_ids), len(result) and their
\* difference
get_embeddings_log(embeddings, wine_ids) ==
    LET result == get_embeddings(embeddings, wine_ids) IN
    [requested |-> Len(wine_ids),
     found |-> Cardinality(DOMAIN result),
     missing |-> Len(wine_ids) - Cardinality(DOMAIN result)]

\* len(self.embeddings)
get_total_count(embeddings) == Cardinality(DOMAIN embeddings)

(***************************************************************************)
(* src/services/wine_service.py                                            *)
(***************************************************************************)
\* variant: the linear remap (1 + d) / 2 is applied
normalize_distances_linear(wine_ids, distances) ==
    IF distances = <<>> THEN EmptyDict
    ELSE ZipAssign(EmptyDict, wine_ids,
                   [i \in DOMAIN distances |-> Frac(1 + distances[i], 2)])

\* variant: every known wine gets a key, 0 for those not returned
normalize_distances_zero_fill(wine_ids, distances) ==
    IF distances = <<>> THEN EmptyDict
    ELSE ZipAssign([w \in WineIds |-> Raw(0)], wine_ids,
                   [i \in DOMAIN distances |-> Raw(distances[i])])

normalize_distances(wine_ids, distances) ==
    IF distances = <<>> THEN EmptyDict
    ELSE ZipAssign(EmptyDict, wine_ids, [i \in DOMAIN distances |-> Raw(distances[i])])

\* min(wine_vector) raises ValueError on an empty vector, before the query
find_similar_wines(wine_vector, idx) ==
    IF wine_vector = <<>>
    THEN [err |-> "ValueError", wines |-> <<>>, scores |-> EmptyDict, calls |-> <<>>]
    ELSE IF ~idx.ok
    THEN [err |-> "Exception", wines |-> <<>>, scores |-> EmptyDict, calls |-> <<"index">>]
    ELSE IF idx.nearest_neighbors = <<>>
    THEN [err |-> "none", wines |-> <<>>, scores |-> EmptyDict, calls |-> <<"index">>]
    ELSE IF idx.nearest_neighbors[1] = <<>>
    THEN [err |-> "none", wines |-> <<>>, scores |-> EmptyDict, calls |-> <<"index">>]
    ELSE LET neighbors == idx.nearest_neighbors[1]
             wine_neighbors == Ids(neighbors)
             distances == Dists(neighbors)
         IN  [err |-> "none", wines |-> wine_neighbors,
              scores |-> normalize_distances(wine_neighbors, distances),
              calls |-> <<"index">>]

\* variant: when the model fails a fixed embedding is searched instead
get_wine_recommendations_fallback(has_model, user_preferences, mdl, idx) ==
    IF ~has_model
    THEN [err |-> "AttributeError", wines |-> <<>>, scores |-> EmptyDict,
          vec |-> <<>>, calls |-> <<>>]
    ELSE LET g == generate_user_embedding(user_preferences, mdl) IN
         IF g.err = "ValueError"
         THEN [err |-> g.err, wines |-> <<>>, scores |-> EmptyDict,
               vec |-> g.vec, calls |-> g.calls]
         ELSE LET f == find_similar_wines(IF g.err = "none" THEN g.embedding ELSE <<1, 0>>,
                                          idx)
              IN  [err |-> f.err, wines |-> f.wines, scores |-> f.scores,
                   vec |-> g.vec, calls |-> g.calls \o f.calls]

\* WineService.get_wine_recommendations; has_model is "self.model_service is
\* not None", and calling a method of None raises AttributeError
get_wine_recommendations(has_model, user_preferences, mdl, idx) ==
    IF ~has_model
    THEN [err |-> "AttributeError", wines |-> <<>>, scores |-> EmptyDict,
          vec |-> <<>>, calls |-> <<>>]
    ELSE LET g == generate_user_embedding(user_preferences, mdl) IN
         IF g.err # "none"
         THEN [err |-> g.err, wines |-> <<>>, scores |-> EmptyDict,
               vec |-> g.vec, calls |-> g.calls]
         ELSE LET f == find_similar_wines(g.embedding, idx) IN
              [err |-> f.err, wines |-> f.wines, scores |-> f.scores,
               vec |-> g.vec, calls |-> g.calls \o f.calls]

RECURSIVE Dot(_, _)
\* np.dot of two vectors of the same length
Dot(u, v) ==
    IF u = <<>> THEN 0
    ELSE Dot(SubSeq(u, 1, Len(u) - 1), SubSeq(v, 1, Len(u) - 1)) + u[Len(u)] * v[Len(u)]

\* variant: an empty list of ids is answered before the store is looked at
score_wines_empty_first(service, user_embedding, wine_ids) ==
    IF wine_ids = <<>>
    THEN [err |-> "none", dot_products |-> EmptyDict, calls |-> <<>>]
    ELSE IF ~service.present
    THEN [err |-> "ValueError", dot_products |-> EmptyDict, calls |-> <<>>]
    ELSE LET wine_embeddings == get_embeddings(service.embeddings, wine_ids) IN
         IF \E w \in DOMAIN wine_embeddings : Len(wine_embeddings[w]) # Len(user_embedding)
         THEN [err |-> "ValueError", dot_products |-> EmptyDict, calls |-> <<"store">>]
         ELSE [err |-> "none",
               dot_products |-> [w \in DOMAIN wine_embeddings |->
                                    Raw(Dot(user_embedding, wine_embeddings[w]))],
               calls |-> <<"store">>]

\* WineService.score_wines.  np.dot raises ValueError when the two vectors
\* differ in length.
score_wines(service, user_embedding, wine_ids) ==
    IF ~service.present
    THEN [err |-> "ValueError", dot_products |-> EmptyDict, calls |-> <<>>]
    ELSE LET wine_embeddings == get_embeddings(service.embeddings, wine_ids) IN
         IF DOMAIN wine_embeddings = {}
         THEN [err |-> "none", dot_products |-> EmptyDict, calls |-> <<"store">>]
         ELSE IF \E w \in DOMAIN wine_embeddings :
                    Len(wine_embeddings[w]) # Len(user_embedding)
         THEN [err |-> "ValueError", dot_products |-> EmptyDict, calls |-> <<"store">>]
         ELSE [err |-> "none",
               dot_products |-> [w \in DOMAIN wine_embeddings |->
                                    Raw(Dot(user_embedding, wine_embeddings[w]))],
               calls |-> <<"store">>]

\* the methods the class WineService defines; an attribute lookup of any
\* other name on the instance raises AttributeError
WineServiceMethods ==
    {"normalize_distances", "get_wine_recommendations", "find_similar_wines",
     "score_wines"}

(***************************************************************************)
(* src/routes/wine_routes.py                                               *)
(***************************************************************************)
\* POST /wines and POST /wines/recommend
route_get_wine_recommendations(has_model, data, mdl, idx) ==
    IF Falsy(data) THEN Error(400, <<>>, <<>>)
    ELSE LET r == get_wine_recommendations(has_model, data.obj, mdl, idx) IN
         IF r.err = "none" THEN Result(r.wines, r.scores, r.vec, 0, r.calls)
         ELSE IF r.err = "ValueError" THEN Error(400, r.vec, r.calls)
         ELSE Error(500, r.vec, r.calls)

\* data.get(key): the value, or absent
Has(data, key) == key \in DOMAIN data.obj

\* variant: the requested ids are looked up in the store before the model is
\* called
route_score_wines_store_first(has_model, service, data, mdl) ==
    IF Falsy(data) THEN Error(400, <<>>, <<>>)
    ELSE IF ~Has(data, "user_data") \/ DOMAIN data.obj["user_data"] = {}
    THEN Error(400, <<>>, <<>>)
    ELSE IF ~Has(data, "wine_ids") \/ data.obj["wine_ids"] = <<>>
    THEN Error(400, <<>>, <<>>)
    ELSE IF ~has_model THEN Error(500, <<>>, <<>>)
    ELSE LET s == score_wines(service, <<>>, <<>>)
             g == generate_user_embedding(data.obj["user_data"], mdl)
         IN  IF s.err = "ValueError" THEN Error(400, <<>>, s.calls)
             ELSE IF g.err = "ValueError" THEN Error(400, g.vec, s.calls \o g.calls)
             ELSE IF g.err # "none" THEN Error(500, g.vec, s.calls \o g.calls)
             ELSE LET t == score_wines(service, g.embedding, data.obj["wine_ids"]) IN
                  IF t.err = "ValueError"
                  THEN Error(400, g.vec, s.calls \o g.calls \o t.calls)
                  ELSE Result(<<>>, t.dot_products, g.vec, 0,
                              s.calls \o g.calls \o t.calls)

\* POST /wines/score
route_score_wines(has_model, service, data, mdl) ==
    IF Falsy(data) THEN Error(400, <<>>, <<>>)
    ELSE IF ~Has(data, "user_data") \/ DOMAIN data.obj["user_data"] = {}
    THEN Error(400, <<>>, <<>>)
    ELSE IF ~Has(data, "wine_ids") \/ data.obj["wine_ids"] = <<>>
    THEN Error(400, <<>>, <<>>)
    ELSE IF ~has_model THEN Error(500, <<>>, <<>>)
    ELSE LET g == generate_user_embedding(data.obj["user_data"], mdl) IN
         IF g.err = "ValueError" THEN Error(400, g.vec, g.calls)
         ELSE IF g.err # "none" THEN Error(500, g.vec, g.calls)
         ELSE LET s == score_wines(service, g.embedding, data.obj["wine_ids"]) IN
              IF s.err = "ValueError" THEN Error(400, g.vec, g.calls \o s.calls)
              ELSE IF s.err # "none" THEN Error(500, g.vec, g.calls \o s.calls)
              ELSE Result(<<>>, s.dot_products, g.vec, 0, g.calls \o s.calls)

\* POST /wines/legacy.  The handler looks up wine_service.parse_wine_vector;
\* the class does not define it, the lookup raises AttributeError, "except
\* ValueError" around the parse does not catch it and Flask answers 500.  The
\* last branch is lines 139-151 for a service that has the method.
get_wine_neighbors_legacy(data, idx) ==
    IF Falsy(data) THEN Error(400, <<>>, <<>>)
    ELSE IF "parse_wine_vector" \notin WineServiceMethods
    THEN Error(500, <<>>, <<>>)
    ELSE LET p == parse_wine_vector(data.obj) IN
         IF p.err # "none" THEN Error(400, <<>>, <<>>)
         ELSE LET f == find_similar_wines(p.vec, idx) IN
              IF f.err = "none" THEN Result(f.wines, f.scores, p.vec, 0, f.calls)
              ELSE Error(500, p.vec, f.calls)

(***************************************************************************)
(* src/services/ocr_service.py and src/routes/ocr_routes.py.  A reply of   *)
(* the Vision API is the outcome of one text_detection call: it raises, or *)
(* it returns a response with an error message (empty when there is no     *)
(* error) and a list of annotations, the first of which holds all text.    *)
(***************************************************************************)
Annotations == {<<>>, <<"MERLOT 2019", "MERLOT", "2019">>, <<"">>}

OcrReplies ==
    [called : {TRUE}, raises : BOOLEAN, error_message : {"", "Bad image data"},
     text_annotations : Annotations]

NoOcrCall == [called |-> FALSE, raises |-> FALSE, error_message |-> "",
              text_annotations |-> <<>>]

\* variant: the annotations are returned when there are any, and the error
\* message is looked at only when there is none
extract_text_annotations_first(rep) ==
    IF rep.raises THEN [err |-> "Exception", text |-> "", calls |-> <<"ocr">>]
    ELSE IF rep.text_annotations # <<>>
    THEN [err |-> "none", text |-> rep.text_annotations[1], calls |-> <<"ocr">>]
    ELSE IF rep.error_message # ""
    THEN [err |-> "Exception", text |-> "", calls |-> <<"ocr">>]
    ELSE [err |-> "none", text |-> "", calls |-> <<"ocr">>]

\* OCRService.extract_text_from_image
OCRService_extract_text_from_image(rep) ==
    IF rep.raises THEN [err |-> "Exception", text |-> "", calls |-> <<"ocr">>]
    ELSE IF rep.error_message # ""
    THEN [err |-> "Exception", text |-> "", calls |-> <<"ocr">>]
    ELSE IF rep.text_annotations # <<>>
    THEN [err |-> "none", text |-> rep.text_annotations[1], calls |-> <<"ocr">>]
    ELSE [err |-> "none", text |-> "", calls |-> <<"ocr">>]

\* jsonify({"text": extracted_text})
TextResult(text, calls) == [Result(<<>>, EmptyDict, <<>>, 0, calls) EXCEPT !.text = text]

\* POST /ocr; data.obj is request.files
extract_text_from_image(data, rep) ==
    IF "image" \notin DOMAIN data.obj THEN Error(400, <<>>, <<>>)
    ELSE IF data.obj["image"].filename = "" THEN Error(400, <<>>, <<>>)
    ELSE LET t == OCRService_extract_text_from_image(rep) IN
         IF t.err = "none" THEN TextResult(t.text, t.calls)
         ELSE Error(500, <<>>, t.calls)

(***************************************************************************)
(* Requests the clients send.                                              *)
(***************************************************************************)
\* absent, or the one-key object {k: v} for a v of vals
Opt(k, vals) == {<<>>} \cup {[x \in {k} |-> v] : v \in vals}

Merge(f, g) == [x \in DOMAIN f \cup DOMAIN g |-> IF x \in DOMAIN f THEN f[x] ELSE g[x]]

TypeValues ==
    {JStr(sRed), JStr(sWhite), JStr(sRose), JStr(sSparkling),
     JStr(s_rose), JStr(sROSE), JStr(sRED), JStr(sMerlot), JInt(3)}
BodyValues ==
    {JInt(0), JInt(1), JInt(3), JInt(5), JInt(6), JFloat(30), JFloat(25),
     JStr(<<51>>), JBool(TRUE)}
DrynessValues == {JInt(2), JInt(6)}
AbvValues == {JFloat(125), JInt(12), JStr(<<49, 50>>)}

SimpleObjects ==
    {Merge(Merge(Merge(Merge(a, b), c), d), e) :
        a \in Opt("type", TypeValues), b \in Opt("body", BodyValues),
        c \in Opt("dryness", DrynessValues), d \in Opt("abv", AbvValues),
        e \in Opt("vintage", {JInt(2020)})}

SimpleBodies == {NoBody} \cup {Body(o) : o \in SimpleObjects}

\* all 55 features present and valid
BaseFeatures == [k \in FeatureNames |-> JInt(0)]

Without(f, K) == [x \in DOMAIN f \ K |-> f[x]]

\* the base mapping with at most one feature left out and at most one key
\* added, or with one feature set to another value: a negative number, a
\* string, or a number above the maximum of a feature that has one
UserObjects ==
    {Merge(Without(BaseFeatures, miss), extra) :
        miss \in {{}} \cup {{k} : k \in FeatureNames},
        extra \in Opt("user_id", {JStr(<<117, 49>>)}) \cup Opt("foo", {JInt(1)})}
    \cup {[BaseFeatures EXCEPT ![k] = v] :
            k \in FeatureNames, v \in {JInt(-1), JStr(<<120>>)}}
    \cup {[BaseFeatures EXCEPT ![k] = JInt(6)] :
            k \in FeaturesRating \cup FeaturesProportion}

UserBodies == {NoBody, Body(<<>>)} \cup {Body(o) : o \in UserObjects}

\* wine ids a client asks about: two the stores may hold and one they never do
RequestedIds == StoreIds \cup {"w9"}
WineIdLists == UNION {[1..n -> RequestedIds] : n \in 0..MaxIds}

\* user_data of a scoring request: empty, valid, one feature missing, or
\* valid with one more key
UserDataValues ==
    {<<>>, BaseFeatures, Without(BaseFeatures, {"rating_std"}),
     Merge(BaseFeatures, [x \in {"user_id"} |-> JStr(<<117, 49>>)])}

ScoreObjects ==
    {Merge(Merge(a, b), c) :
        a \in Opt("user_data", UserDataValues), b \in Opt("wine_ids", WineIdLists),
        c \in Opt("user_id", {JStr(<<117, 49>>)})}

ScoreBodies == {NoBody} \cup {Body(o) : o \in ScoreObjects}

\* request.files of an OCR request: no image part, one with an empty
\* filename, or an uploaded file
OcrBodies ==
    {Body(<<>>), Body([image |-> [filename |-> ""]]),
     Body([image |-> [filename |-> "label.jpg"]]),
     Body([image |-> [filename |-> "label.jpg"], other |-> [filename |-> "x"]])}

\* requests and index replies of the concurrent runs
ConcurrentUserBodies == {Body(<<>>), Body(BaseFeatures), Body(Without(BaseFeatures, {"rating_std"}))}
ConcurrentScoreBodies ==
    {Body([user_data |-> BaseFeatures]),
     Body([user_data |-> BaseFeatures, wine_ids |-> <<"w1", "w9">>]),
     Body([user_data |-> BaseFeatures, wine_ids |-> <<"w2">>])}
ConcurrentSimpleBodies ==
    {NoBody, Body([type |-> JStr(sRed), body |-> JInt(1), dryness |-> JInt(2),
                   abv |-> JFloat(125)])}
ConcurrentOcrBodies == {Body(<<>>), Body([image |-> [filename |-> "label.jpg"]])}
ConcurrentIndexReplies ==
    {r \in IndexReplies :
        r.nearest_neighbors = <<>> \/ Len(r.nearest_neighbors[1]) <= 1}

\* user embeddings handed to WineService.score_wines
UserEmbeddings == {<<>>, <<1, 0>>, <<2, -1>>, <<1, 1, 1>>}

\* the store of a deployment that wires an EmbeddingsService into WineService
DeployedStore == [w \in StoreIds |-> IF w = "w1" THEN Stored(<<3, 2>>) ELSE None]

(***************************************************************************)
(* The state machine.                                                      *)
(***************************************************************************)
NoResponse ==
    [status |-> 0, kind |-> "none", wines |-> <<>>, scores |-> EmptyDict,
     vector |-> <<>>, divs |-> 0, calls |-> <<>>, raised |-> "none",
     text |-> "", log |-> NoLog]

\* no EmbeddingsService is being constructed
NoLoad ==
    [done |-> FALSE, gcs_uri |-> [gs |-> FALSE, path_parts |-> <<>>],
     downloaded |-> FALSE, content |-> <<>>, raised |-> FALSE]

\* worker threads of the server; each handles one request at a time and keeps
\* it, with the replies it got so far, in its own request context
Workers == {"t1", "t2"}
IdleWorker ==
    [pc |-> "idle", route |-> "none", request |-> NoBody, model_reply |-> NoModelCall,
     index_reply |-> NoIndexCall, ocr_reply |-> NoOcrCall, response |-> NoResponse]

Called(r, name) == \E i \in DOMAIN r.calls : r.calls[i] = name

\* replies used to find out whether a handler reaches a collaborator at all
ProbeIdx == [called |-> TRUE, ok |-> FALSE, nearest_neighbors |-> <<>>]
ProbeMdl == [called |-> TRUE, kind |-> "ok", embedding |-> <<1, 0>>]

Init ==
    /\ app = "none"
    /\ phase = "boot"
    /\ model_service = FALSE
    /\ embeddings_service = NoEmbeddingsService
    /\ route = "none"
    /\ request = NoBody
    /\ model_reply = NoModelCall
    /\ index_reply = NoIndexCall
    /\ ocr_reply = NoOcrCall
    /\ load = NoLoad
    /\ workers = [w \in Workers |-> IdleWorker]
    /\ response = NoResponse

\* src/app.py run as the application
load_app ==
    /\ phase = "boot"
    /\ app' = "app"
    /\ phase' = "idle"
    /\ UNCHANGED <<ocr_reply, load, workers>>
    /\ UNCHANGED <<model_service, embeddings_service, route, request, model_reply,
                   index_reply, response>>

\* src/app_factory.py create_app: the model service is None when the endpoint
\* is not configured or ModelService() raises
create_app ==
    /\ phase = "boot"
    /\ app' = "factory"
    /\ phase' = "idle"
    /\ model_service' \in BOOLEAN
    /\ embeddings_service' = NoEmbeddingsService
    /\ UNCHANGED <<ocr_reply, load, workers>>
    /\ UNCHANGED <<route, request, model_reply, index_reply, response>>

\* create_wine_routes over a WineService built with an embeddings service
create_wine_routes ==
    /\ phase = "boot"
    /\ app' = "routes"
    /\ phase' = "idle"
    /\ model_service' \in BOOLEAN
    /\ embeddings_service' = EmbeddingsService(DeployedStore)
    /\ UNCHANGED <<ocr_reply, load, workers>>
    /\ UNCHANGED <<route, request, model_reply, index_reply, response>>

\* WineService(vector_search_client, None, embeddings_service) held directly
WineService ==
    /\ phase \in {"boot", "loaded"}
    /\ app' = "service"
    /\ phase' = "idle"
    /\ model_service' = FALSE
    /\ load' = NoLoad
    /\ UNCHANGED <<ocr_reply, workers, embeddings_service>>
    /\ UNCHANGED <<route, request, model_reply, index_reply, response>>

\* EmbeddingsService(gcs_uri): the constructor returns the instance when the
\* load went through; when the load raises, so does the constructor, and
\* nothing holds the object with its partly filled self.embeddings
EmbeddingsService_init ==
    /\ phase = "boot"
    /\ \E gcs_uri \in GcsUris, downloaded \in BOOLEAN :
         \E content \in (IF gcs_uri.gs /\ Len(gcs_uri.path_parts) >= 2 /\ downloaded
                         THEN Files ELSE {<<>>}) :
            LET l == _load_embeddings(gcs_uri, downloaded, content) IN
            /\ load' = [done |-> TRUE, gcs_uri |-> gcs_uri, downloaded |-> downloaded,
                        content |-> content, raised |-> l.raised]
            /\ phase' = IF l.raised THEN "failed" ELSE "loaded"
            /\ embeddings_service' = IF l.raised THEN NoEmbeddingsService
                                     ELSE EmbeddingsService(l.embeddings)
    /\ UNCHANGED <<app, model_service, route, request, model_reply, index_reply,
                   ocr_reply, workers, response>>

\* POST /wines of src/app.py
AppWines ==
    /\ phase = "idle" /\ app = "app"
    /\ \E data \in SimpleBodies :
         \E idx \in (IF Called(get_wine_neighbors(data, ProbeIdx), "index")
                     THEN IndexReplies ELSE {NoIndexCall}) :
            /\ request' = data
            /\ index_reply' = idx
            /\ response' = get_wine_neighbors(data, idx)
    /\ route' = "app_wines"
    /\ phase' = "done"
    /\ UNCHANGED <<ocr_reply, load, workers>>
    /\ UNCHANGED <<app, model_service, embeddings_service, model_reply>>

\* POST /wines/legacy of the blueprint
WinesLegacy ==
    /\ phase = "idle" /\ app \in {"factory", "routes"}
    /\ \E data \in SimpleBodies :
         \E idx \in (IF Called(get_wine_neighbors_legacy(data, ProbeIdx), "index")
                     THEN IndexReplies ELSE {NoIndexCall}) :
            /\ request' = data
            /\ index_reply' = idx
            /\ response' = get_wine_neighbors_legacy(data, idx)
    /\ route' = "wines_legacy"
    /\ phase' = "done"
    /\ UNCHANGED <<ocr_reply, load, workers>>
    /\ UNCHANGED <<app, model_service, embeddings_service, model_reply>>

\* POST /wines and POST /wines/recommend of the blueprint
WinesRecommend ==
    /\ phase = "idle" /\ app \in {"factory", "routes"}
    /\ \E data \in UserBodies :
         \E mdl \in (IF Called(route_get_wine_recommendations(
                                   model_service, data, ProbeMdl, ProbeIdx), "model")
                     THEN ModelReplies ELSE {NoModelCall}) :
           \E idx \in (IF Called(route_get_wine_recommendations(
                                     model_service, data, mdl, ProbeIdx), "index")
                       THEN IndexReplies ELSE {NoIndexCall}) :
              /\ request' = data
              /\ model_reply' = mdl
              /\ index_reply' = idx
              /\ response' = route_get_wine_recommendations(model_service, data, mdl, idx)
    /\ route' = "wines_recommend"
    /\ phase' = "done"
    /\ UNCHANGED <<ocr_reply, load, workers>>
    /\ UNCHANGED <<app, model_service, embeddings_service>>

\* POST /wines/score of the blueprint
WinesScore ==
    /\ phase = "idle" /\ app \in {"factory", "routes"}
    /\ \E data \in ScoreBodies :
         \E mdl \in (IF Called(route_score_wines(model_service, embeddings_service,
                                                 data, ProbeMdl), "model")
                     THEN ModelReplies ELSE {NoModelCall}) :
            /\ request' = data
            /\ model_reply' = mdl
            /\ response' = route_score_wines(model_service, embeddings_service, data, mdl)
    /\ route' = "wines_score"
    /\ phase' = "done"
    /\ UNCHANGED <<ocr_reply, load, workers>>
    /\ UNCHANGED <<app, model_service, embeddings_service, index_reply>>

\* POST /ocr of the application built by create_app
Ocr ==
    /\ phase = "idle" /\ app = "factory"
    /\ \E data \in OcrBodies :
         \E rep \in (IF Called(extract_text_from_image(data, NoOcrCall), "ocr")
                     THEN OcrReplies ELSE {NoOcrCall}) :
            /\ request' = data
            /\ ocr_reply' = rep
            /\ response' = extract_text_from_image(data, rep)
    /\ route' = "ocr"
    /\ phase' = "done"
    /\ UNCHANGED <<app, model_service, embeddings_service, model_reply, index_reply,
                   load, workers>>

\* EmbeddingsService.get_embeddings called on a loaded store
GetEmbeddings ==
    /\ phase = "idle" /\ app = "service" /\ embeddings_service.present
    /\ \E wine_ids \in WineIdLists :
         /\ request' = Body([wine_ids |-> wine_ids])
         /\ response' =
               [Returned(get_embeddings(embeddings_service.embeddings, wine_ids),
                         <<"store">>)
                  EXCEPT !.log = get_embeddings_log(embeddings_service.embeddings, wine_ids)]
    /\ route' = "get_embeddings"
    /\ phase' = "done"
    /\ UNCHANGED <<ocr_reply, load, workers>>
    /\ UNCHANGED <<app, model_service, embeddings_service, model_reply, index_reply>>

\* has_embedding, get_embedding, get_embeddings and get_total_count called
\* in turn for one wine id; scores holds what each of them returned
StoreReads ==
    /\ phase = "idle" /\ app = "service" /\ embeddings_service.present
    /\ \E wine_id \in RequestedIds \cup {"7"} :
         /\ request' = Body([wine_id |-> wine_id])
         /\ response' =
               Returned([has_embedding |->
                             has_embedding(embeddings_service.embeddings, wine_id),
                         get_embedding |->
                             get_embedding(embeddings_service.embeddings, wine_id),
                         get_embeddings |->
                             get_embeddings(embeddings_service.embeddings, <<wine_id>>),
                         get_total_count |->
                             get_total_count(embeddings_service.embeddings)],
                        <<"store", "store", "store", "store">>)
    /\ route' = "store_reads"
    /\ phase' = "done"
    /\ UNCHANGED <<ocr_reply, load, workers>>
    /\ UNCHANGED <<app, model_service, embeddings_service, model_reply, index_reply>>

\* WineService.score_wines called directly
ScoreWines ==
    /\ phase = "idle" /\ app = "service"
    /\ \E user_embedding \in UserEmbeddings, wine_ids \in WineIdLists :
         /\ request' = Body([user_embedding |-> user_embedding, wine_ids |-> wine_ids])
         /\ LET s == score_wines(embeddings_service, user_embedding, wine_ids) IN
            response' = IF s.err = "none" THEN Returned(s.dot_products, s.calls)
                        ELSE Raised(s.err, s.calls)
    /\ route' = "score_wines"
    /\ phase' = "done"
    /\ UNCHANGED <<ocr_reply, load, workers>>
    /\ UNCHANGED <<app, model_service, embeddings_service, model_reply, index_reply>>

\* the response the handler of worker x gives to its request once the
\* replies in x are in
Handle(x, service) ==
    CASE x.route = "wines_recommend" ->
            route_get_wine_recommendations(model_service, x.request, x.model_reply,
                                           x.index_reply)
      [] x.route = "wines_score" ->
            route_score_wines(model_service, service, x.request, x.model_reply)
      [] x.route = "wines_legacy" -> get_wine_neighbors_legacy(x.request, x.index_reply)
      [] OTHER -> extract_text_from_image(x.request, x.ocr_reply)

\* the collaborator the handler of x calls next, "none" when it has answered
NextCall(x, service) ==
    LET probe == Handle([x EXCEPT !.model_reply = IF x.model_reply.called THEN @ ELSE ProbeMdl],
                        service)
    IN  IF ~x.model_reply.called /\ Called(probe, "model") THEN "model"
        ELSE IF ~x.index_reply.called /\ Called(probe, "index") THEN "index"
        ELSE IF ~x.ocr_reply.called /\ Called(probe, "ocr") THEN "ocr"
        ELSE IF Called(probe, "store") THEN "store"
        ELSE "none"

\* a worker thread takes a request and runs its handler up to the first call
\* of a collaborator
Receive(w) ==
    /\ phase = "idle" /\ app \in {"factory", "routes"}
    /\ workers[w].pc = "idle"
    /\ \E r \in {"wines_recommend", "wines_score", "wines_legacy"}
                \cup (IF app = "factory" THEN {"ocr"} ELSE {}) :
         \E data \in (CASE r = "wines_recommend" -> ConcurrentUserBodies
                        [] r = "wines_score" -> ConcurrentScoreBodies
                        [] r = "wines_legacy" -> ConcurrentSimpleBodies
                        [] OTHER -> ConcurrentOcrBodies) :
            \E x \in {[IdleWorker EXCEPT !.route = r, !.request = data]} :
               \E c \in {NextCall(x, embeddings_service)} :
                  \E y \in {IF c = "none"
                             THEN [x EXCEPT !.pc = "done",
                                            !.response = Handle(x, embeddings_service)]
                             ELSE [x EXCEPT !.pc = c]} :
                     workers' = [workers EXCEPT ![w] = y]
    /\ UNCHANGED <<app, phase, model_service, embeddings_service, route, request,
                   model_reply, index_reply, ocr_reply, load, response>>

\* endpoint.predict returns or raises in the thread of worker w
Predict(w) ==
    /\ workers[w].pc = "model"
    /\ \E mdl \in ModelReplies :
         \E x \in {[workers[w] EXCEPT !.model_reply = mdl]} :
            \E c \in {NextCall(x, embeddings_service)} :
               \E y \in {IF c = "none"
                          THEN [x EXCEPT !.pc = "done",
                                         !.response = Handle(x, embeddings_service)]
                          ELSE [x EXCEPT !.pc = c]} :
                  workers' = [workers EXCEPT ![w] = y]
    /\ UNCHANGED <<app, phase, model_service, embeddings_service, route, request,
                   model_reply, index_reply, ocr_reply, load, response>>

\* find_neighbors returns or raises in the thread of worker w
Query(w) ==
    /\ workers[w].pc = "index"
    /\ \E idx \in ConcurrentIndexReplies :
         \E x \in {[workers[w] EXCEPT !.index_reply = idx]} :
            \E y \in {Handle(x, embeddings_service)} :
               workers' = [workers EXCEPT ![w] = [x EXCEPT !.pc = "done", !.response = y]]
    /\ UNCHANGED <<app, phase, model_service, embeddings_service, route, request,
                   model_reply, index_reply, ocr_reply, load, response>>

\* text_detection returns or raises in the thread of worker w
Detect(w) ==
    /\ workers[w].pc = "ocr"
    /\ \E rep \in OcrReplies :
         \E x \in {[workers[w] EXCEPT !.ocr_reply = rep]} :
            \E y \in {Handle(x, embeddings_service)} :
               workers' = [workers EXCEPT ![w] = [x EXCEPT !.pc = "done", !.response = y]]
    /\ UNCHANGED <<app, phase, model_service, embeddings_service, route, request,
                   model_reply, index_reply, ocr_reply, load, response>>

\* score_wines reads the shared store in the thread of worker w
Lookup(w) ==
    /\ workers[w].pc = "store"
    /\ \E y \in {Handle(workers[w], embeddings_service)} :
         workers' = [workers EXCEPT ![w] = [@ EXCEPT !.pc = "done", !.response = y]]
    /\ embeddings_service' =
           [embeddings_service EXCEPT !.embeddings =
               embeddings_after_get_embeddings(@, workers[w].request.obj["wine_ids"])]
    /\ UNCHANGED <<app, phase, model_service, route, request, model_reply, index_reply,
                   ocr_reply, load, response>>

\* worker w has sent its response and is free again
Respond(w) ==
    /\ workers[w].pc = "done"
    /\ workers' = [workers EXCEPT ![w] = IdleWorker]
    /\ UNCHANGED <<app, phase, model_service, embeddings_service, route, request,
                   model_reply, index_reply, ocr_reply, load, response>>

\* the response is sent and the worker waits for the next request
NextRequest ==
    /\ phase = "done"
    /\ phase' = "idle"
    /\ route' = "none"
    /\ request' = NoBody
    /\ model_reply' = NoModelCall
    /\ index_reply' = NoIndexCall
    /\ ocr_reply' = NoOcrCall
    /\ response' = NoResponse
    /\ UNCHANGED <<load, workers>>
    /\ UNCHANGED <<app, model_service, embeddings_service>>

Next ==
    \/ load_app
    \/ create_app
    \/ create_wine_routes
    \/ AppWines
    \/ WinesLegacy
    \/ WinesRecommend
    \/ WinesScore
    \/ Ocr
    \/ NextRequest

Spec == Init /\ [][Next]_vars

\* the services on their own, with every store a load can leave behind
NextService ==
    \/ EmbeddingsService_init
    \/ WineService
    \/ GetEmbeddings
    \/ StoreReads
    \/ ScoreWines
    \/ NextRequest

SpecService == Init /\ [][NextService]_vars

\* the blueprints served by a threaded server: the steps of the workers
\* interleave freely
NextConcurrent ==
    \/ create_app
    \/ create_wine_routes
    \/ \E w \in Workers : Receive(w)
    \/ \E w \in Workers : Predict(w)
    \/ \E w \in Workers : Query(w)
    \/ \E w \in Workers : Detect(w)
    \/ \E w \in Workers : Lookup(w)
    \/ \E w \in Workers : Respond(w)

SpecConcurrent == Init /\ [][NextConcurrent]_vars

(***************************************************************************)
(* Properties.                                                             *)
(***************************************************************************)
Served(r) == phase = "done" /\ route = r

\* the neighbor list the index returned to the handler (<<>> when none)
Nbrs ==
    IF index_reply.called /\ index_reply.ok /\ index_reply.nearest_neighbors # <<>>
    THEN index_reply.nearest_neighbors[1]
    ELSE <<>>

DistSet(nbrs) == {nbrs[i].distance : i \in DOMAIN nbrs}
IdSet(nbrs) == {nbrs[i].datapoint_id : i \in DOMAIN nbrs}
SetMin(S) == CHOOSE x \in S : \A y \in S : x <= y
SetMax(S) == CHOOSE x \in S : \A y \in S : x >= y

\* the distance of the last pair of the list that carries id
LastDist(nbrs, id) ==
    LET last == CHOOSE i \in DOMAIN nbrs :
                    /\ nbrs[i].datapoint_id = id
                    /\ \A j \in DOMAIN nbrs : nbrs[j].datapoint_id = id => j <= i
    IN  nbrs[last].distance

Zero == <<0, 1>>

\* C1: legacy get_wine_neighbors, a non-empty neighbor list whose distances
\* are all equal (a single pair included): every id of the list scores
\* exactly 1.0 and no division is performed.
C1_TieScoresOne ==
    (Served("app_wines") /\ Nbrs # <<>> /\ Cardinality(DistSet(Nbrs)) = 1)
    => /\ response.status = 200
       /\ \A i \in DOMAIN Nbrs :
            /\ Nbrs[i].datapoint_id \in DOMAIN response.scores
            /\ response.scores[Nbrs[i].datapoint_id] = One
       /\ response.divs = 0

C1_Witness ==
    /\ Served("app_wines") /\ response.status = 200
    /\ Len(Nbrs) = 2 /\ Cardinality(IdSet(Nbrs)) = 2 /\ Cardinality(DistSet(Nbrs)) = 1
    /\ \A id \in IdSet(Nbrs) : response.scores[id] = One

\* C2 as stated: with max > min, every pair at the minimum distance has its
\* id scored 0.0, every pair at the maximum has its id scored 1.0, all scores
\* lie in [0,1], and a pair with a larger distance never has a smaller score,
\* for every list, repeated ids included.
C2_Original ==
    (Served("app_wines") /\ Nbrs # <<>> /\ Cardinality(DistSet(Nbrs)) > 1)
    => /\ response.status = 200
       /\ \A i \in DOMAIN Nbrs :
            LET id == Nbrs[i].datapoint_id
                d == Nbrs[i].distance
            IN  /\ id \in DOMAIN response.scores
                /\ d = SetMin(DistSet(Nbrs)) => response.scores[id] = Zero
                /\ d = SetMax(DistSet(Nbrs)) => response.scores[id] = One
                /\ FracLe(Zero, response.scores[id]) /\ FracLe(response.scores[id], One)
                /\ \A j \in DOMAIN Nbrs :
                      d <= Nbrs[j].distance
                      => FracLe(response.scores[id], response.scores[Nbrs[j].datapoint_id])

\* C2 amended: with max > min, every score lies in [0,1] and the score of an
\* id is decided by the LAST pair of the list that carries it: it is 0.0 when
\* that pair is at the minimum distance, 1.0 when it is at the maximum, and an
\* id whose last pair has the larger distance never has the smaller score.
C2_LastOccurrenceDecides ==
    (Served("app_wines") /\ Nbrs # <<>> /\ Cardinality(DistSet(Nbrs)) > 1)
    => /\ response.status = 200
       /\ \A id \in IdSet(Nbrs) :
            LET d == LastDist(Nbrs, id)
            IN  /\ id \in DOMAIN response.scores
                /\ d = SetMin(DistSet(Nbrs)) => response.scores[id] = Zero
                /\ d = SetMax(DistSet(Nbrs)) => response.scores[id] = One
                /\ FracLe(Zero, response.scores[id]) /\ FracLe(response.scores[id], One)
                /\ \A id2 \in IdSet(Nbrs) :
                      d <= LastDist(Nbrs, id2)
                      => FracLe(response.scores[id], response.scores[id2])

\* a list of three pairs in which one id comes twice with different distances
\* and the other id lies strictly between the minimum and the maximum
C2_Witness ==
    /\ Served("app_wines") /\ response.status = 200
    /\ Len(Nbrs) = 3 /\ Cardinality(DistSet(Nbrs)) = 3
    /\ Nbrs[1].datapoint_id = Nbrs[3].datapoint_id
    /\ Nbrs[1].distance = SetMin(DistSet(Nbrs))
    /\ response.scores[Nbrs[1].datapoint_id] = One
    /\ response.scores[Nbrs[2].datapoint_id] = <<1, 2>>

\* a non-empty simple-wine body that passes SCHEMA
ValidSimple(data) == ~Falsy(data) /\ Validates(data.obj, SCHEMA)

\* policy 1 for the id of a list: (d - min) / (max - min), or 1.0 on a tie
MinMaxOf(nbrs, id) ==
    LET lo == SetMin(DistSet(nbrs))
        hi == SetMax(DistSet(nbrs))
    IN  IF hi > lo THEN Frac(LastDist(nbrs, id) - lo, hi - lo) ELSE One

\* C3 as stated: POST /wines/legacy with a valid simple-wine body queries the
\* index, and for a non-empty neighbor list answers 200 with the min-max
\* normalization of the distances as scores.
C3_LegacyMinMax ==
    (Served("wines_legacy") /\ ValidSimple(request))
    => /\ index_reply.called
       /\ Nbrs # <<>>
          => /\ response.status = 200
             /\ response.wines = Ids(Nbrs)
             /\ DOMAIN response.scores = IdSet(Nbrs)
             /\ \A id \in IdSet(Nbrs) : response.scores[id] = MinMaxOf(Nbrs, id)

C6_KeysAreReturnedIds ==
    (phase = "done" /\ response.status = 200
        /\ route \in {"app_wines", "wines_legacy", "wines_recommend"})
    => /\ response.wines = Ids(Nbrs)
       /\ DOMAIN response.scores = {response.wines[i] : i \in DOMAIN response.wines}

\* find_similar_wines answered a list in which an id is repeated
C6_Witness ==
    /\ Served("wines_recommend") /\ response.status = 200
    /\ Len(Nbrs) = 3 /\ Nbrs[1].datapoint_id = Nbrs[2].datapoint_id
    /\ Nbrs[1].distance # Nbrs[2].distance
    /\ DOMAIN response.scores = {Nbrs[1].datapoint_id}

CanonTypes == {sRed, sWhite, sRose, sSparkling}

\* the body with its type written as the enum writes it, when the type is one
\* of the four in some casing and the body is then valid
Canonical(data) ==
    {[data.obj EXCEPT !["type"] = JStr(c)] :
        c \in {c \in CanonTypes :
                 /\ ~Falsy(data)
                 /\ "type" \in DOMAIN data.obj
                 /\ data.obj["type"].t = "str"
                 /\ Lower(c) = Lower(data.obj["type"].s)
                 /\ Validates([data.obj EXCEPT !["type"] = JStr(c)], SCHEMA)}}

\* C8 as stated: a body whose type is Red, White, Rose or Sparkling in any
\* casing, with otherwise valid fields, is not rejected and gives the vector
\* of the canonical casing.
C8_CaseInsensitiveType ==
    Served("app_wines")
    => \A o \in Canonical(request) :
          /\ response.status # 400
          /\ response.vector = parse_wine_vector(o).vec

\* SCHEMA closed against unknown fields
ClosedSchema == [SCHEMA EXCEPT !.additionalProperties = FALSE]

\* C9 as stated: on both legacy endpoints a non-empty body with a missing,
\* mistyped or out-of-range field, or with an unknown field, is answered 400
\* and no feature vector is built.
C9_InvalidSimpleIs400 ==
    (phase = "done" /\ route \in {"app_wines", "wines_legacy"}
        /\ ~Falsy(request) /\ ~Validates(request.obj, ClosedSchema))
    => /\ response.status = 400
       /\ response.vector = <<>>

\* C10: with a model service, a mapping that lacks one of the 55 canonical
\* keys, or carries a key outside them, fails preprocessing with ValueError:
\* the request is answered 400, no vector is built and the model is not called.
C10_ClosedAndComplete ==
    (Served("wines_recommend") /\ model_service /\ ~Falsy(request)
        /\ DOMAIN request.obj # FeatureNames)
    => /\ response.status = 400
       /\ response.vector = <<>>
       /\ response.calls = <<>>

\* all 55 features present and valid, plus one unknown key
C10_Witness ==
    /\ Served("wines_recommend") /\ model_service
    /\ DOMAIN request.obj = FeatureNames \cup {"foo"}
    /\ Validates(Without(request.obj, {"foo"}), USER_FEATURES_SCHEMA)
    /\ response.status = 400

\* C11 as stated: a body with the 55 valid features plus "user_id" is not
\* answered 400 on POST /wines and POST /wines/recommend, and it is answered
\* as the same body without "user_id" is (same model and index replies).
C11_UserIdAccepted ==
    (Served("wines_recommend") /\ model_service /\ ~Falsy(request)
        /\ DOMAIN request.obj = FeatureNames \cup {"user_id"}
        /\ Validates(Without(request.obj, {"user_id"}), USER_FEATURES_SCHEMA))
    => /\ response.status # 400
       /\ response = route_get_wine_recommendations(
                         model_service, Body(Without(request.obj, {"user_id"})),
                         model_reply, index_reply)

\* C12: in comprehensive mode a mapping that passes validation is turned into
\* a vector of exactly 55 elements whose i-th element is the value found
\* under the i-th name of USER_FEATURE_NAMES; a mapping that fails validation
\* yields no vector at all, never a shorter one.
C12_VectorInCanonicalOrder ==
    (Served("wines_recommend") /\ model_service /\ ~Falsy(request))
    => IF "rating_mean" \in DOMAIN request.obj
          /\ Validates(request.obj, USER_FEATURES_SCHEMA)
       THEN /\ Len(response.vector) = 55
            /\ \A i \in 1..55 :
                  response.vector[i] = JFloat(Tenths(request.obj[USER_FEATURE_NAMES[i]]))
       ELSE response.vector = <<>>

\* a valid mapping whose 54th feature alone is -1: the vector has -1.0 at
\* position 54 and 0.0 elsewhere
C12_Witness ==
    /\ Served("wines_recommend") /\ model_service
    /\ DOMAIN request.obj = FeatureNames
    /\ request.obj["rating_trend"] = JInt(-1)
    /\ Len(response.vector) = 55
    /\ response.vector[54] = JFloat(-10)
    /\ response.vector[2] = JFloat(0)

\* the ids a get_embeddings or score_wines call asked about
Requested == {request.obj["wine_ids"][i] : i \in DOMAIN request.obj["wine_ids"]}

\* C13 as stated: get_embeddings returns, without raising, a mapping whose key
\* set is exactly the requested ids that exist in the store, each mapped to
\* the embedding the store holds for that id.
C13_KeysAreExistingIds ==
    Served("get_embeddings")
    => /\ response.kind = "return"
       /\ DOMAIN response.scores = Requested \cap DOMAIN embeddings_service.embeddings
       /\ \A w \in DOMAIN response.scores :
             Stored(response.scores[w]) = embeddings_service.embeddings[w]

\* C14: WineService.score_wines with a store present returns an empty mapping,
\* without raising, for an empty wine_ids and for a list none of whose ids
\* exist in the store; with the store absent it raises the configuration
\* error for every input, the empty list included, before any lookup.
C14_EmptyMappingOrConfigError ==
    Served("score_wines")
    => /\ (embeddings_service.present
             /\ Requested \cap DOMAIN embeddings_service.embeddings = {})
          => (response.kind = "return" /\ response.scores = EmptyDict)
       /\ ~embeddings_service.present
          => (response.kind = "raise" /\ response.raised = "ValueError"
                /\ response.calls = <<>>)

\* no store and an empty list of ids: the error is raised all the same
C14_Witness ==
    /\ Served("score_wines")
    /\ ~embeddings_service.present
    /\ request.obj["wine_ids"] = <<>>
    /\ response.kind = "raise"

\* the stored vectors of the requested ids all have the user embedding's length
SameDimension ==
    \A w \in Requested \cap DOMAIN embeddings_service.embeddings :
        \/ embeddings_service.embeddings[w].null
        \/ Len(embeddings_service.embeddings[w].vec) = Len(request.obj["user_embedding"])

\* C15 as stated: with the store present, score_wines returns a mapping whose
\* keys are exactly the requested ids found in the store, each mapped to the
\* raw dot product of the user embedding and the stored embedding, with no
\* transform; ids not found are omitted and cause no error.
C15_RawDotProductOfFoundIds ==
    (Served("score_wines") /\ embeddings_service.present /\ SameDimension)
    => /\ response.kind = "return"
       /\ DOMAIN response.scores = Requested \cap DOMAIN embeddings_service.embeddings
       /\ \A w \in DOMAIN response.scores :
             response.scores[w] =
                 Raw(Dot(request.obj["user_embedding"],
                         embeddings_service.embeddings[w].vec))

\* a scoring request that carries a non-empty user_data and a non-empty wine_ids
ScoreRequestComplete ==
    /\ ~Falsy(request)
    /\ Has(request, "user_data") /\ DOMAIN request.obj["user_data"] # {}
    /\ Has(request, "wine_ids") /\ request.obj["wine_ids"] # <<>>

\* a scoring request whose user_data is valid and whose embedding the model returned
ScoreEmbeddingGenerated ==
    /\ ScoreRequestComplete
    /\ preprocess_user_data(request.obj["user_data"]).err = "none"
    /\ model_reply.called /\ model_reply.kind = "ok"

\* C16 as stated: a request that needs a collaborator that was never
\* initialized is answered 5xx, never 4xx: the model service on POST /wines,
\* /wines/recommend and /wines/score, the embeddings store on /wines/score.
C16_ConfigErrorsAreServerFaults ==
    /\ (Served("wines_recommend") /\ ~Falsy(request) /\ ~model_service)
       => response.status >= 500
    /\ (Served("wines_score") /\ ScoreRequestComplete /\ ~model_service)
       => response.status >= 500
    /\ (Served("wines_score") /\ ScoreEmbeddingGenerated /\ ~embeddings_service.present)
       => response.status >= 500

\* a requested id whose stored vector differs in length from the user embedding
DimensionMismatch ==
    \E w \in Requested \cap DOMAIN embeddings_service.embeddings :
        /\ ~embeddings_service.embeddings[w].null
        /\ Len(embeddings_service.embeddings[w].vec) # Len(model_reply.embedding)

\* C17 as stated, for the wine endpoints: when the model call or the index
\* query fails, when the model returns an empty embedding, or when a stored
\* embedding has another dimension than the user embedding, the request is
\* answered 500, never 400 or 200.
C17_DownstreamFailuresAre500 ==
    /\ (phase = "done" /\ model_reply.called
          /\ (model_reply.kind # "ok" \/ model_reply.embedding = <<>>))
       => response.status = 500
    /\ (phase = "done" /\ index_reply.called /\ ~index_reply.ok)
       => response.status = 500
    /\ (Served("wines_score") /\ ScoreEmbeddingGenerated
          /\ embeddings_service.present /\ DimensionMismatch)
       => response.status = 500

\* the index answered with no query result, or with an empty neighbor list
EmptyIndexResult ==
    /\ index_reply.called /\ index_reply.ok
    /\ \/ index_reply.nearest_neighbors = <<>>
       \/ index_reply.nearest_neighbors[1] = <<>>

\* C18 as stated: when the index returns no query result or an empty neighbor
\* list the search or recommendation request is answered 200 with empty
\* wines and scores; when none of the requested ids has an embedding in a
\* present store POST /wines/score is answered 200 with empty dot_products;
\* the score transform of an empty list is the empty mapping.
C18_EmptyResultsAreSuccess ==
    /\ (phase = "done" /\ EmptyIndexResult)
       => /\ response.status = 200
          /\ response.wines = <<>>
          /\ response.scores = EmptyDict
    /\ (Served("wines_score") /\ ScoreEmbeddingGenerated /\ embeddings_service.present
          /\ get_embeddings(embeddings_service.embeddings, request.obj["wine_ids"])
                = EmptyDict)
       => /\ response.status = 200
          /\ response.scores = EmptyDict
    /\ normalize_distances(<<>>, <<>>) = EmptyDict

\* embedding generation was attempted and failed: the user data did not pass
\* preprocessing, or the model call did not return an embedding
EmbeddingGenerationFailed ==
    /\ model_service
    /\ \/ /\ route = "wines_recommend" /\ ~Falsy(request)
          /\ preprocess_user_data(request.obj).err # "none"
       \/ /\ route = "wines_score" /\ ScoreRequestComplete
          /\ preprocess_user_data(request.obj["user_data"]).err # "none"
       \/ model_reply.called /\ model_reply.kind # "ok"

C20_ModelBeforeStoreNoIndex ==
    Served("wines_score")
    => /\ \A i \in DOMAIN response.calls :
             response.calls[i] = "store"
             => \E j \in 1..(i - 1) : response.calls[j] = "model"
       /\ ~Called(response, "index")
       /\ ~index_reply.called

\* a scoring request that reached the store: the model call came first
C20_Witness ==
    /\ Served("wines_score")
    /\ embeddings_service.present
    /\ response.calls = <<"model", "store">>
    /\ response.status = 200

\* C22: POST /ocr without an image part or with an empty filename is answered
\* 400 and the OCR service is not called; otherwise the service is called
\* exactly once and the answer is 200 with the extracted text (the empty
\* string when there is none), or 500 when the service reports an error, in
\* which case no text is returned even if annotations are present.
C22_OcrContract ==
    Served("ocr")
    => IF "image" \notin DOMAIN request.obj \/ request.obj["image"].filename = ""
       THEN /\ response.status = 400
            /\ ~ocr_reply.called
            /\ response.calls = <<>>
       ELSE /\ ocr_reply.called
            /\ response.calls = <<"ocr">>
            /\ IF ocr_reply.raises \/ ocr_reply.error_message # ""
               THEN /\ response.status = 500
                    /\ response.kind = "error"
                    /\ response.text = ""
               ELSE /\ response.status = 200
                    /\ response.kind = "result"
                    /\ response.text = IF ocr_reply.text_annotations = <<>> THEN ""
                                       ELSE ocr_reply.text_annotations[1]

\* the Vision API reports an error together with annotations: 500, no text
C22_Witness ==
    /\ Served("ocr")
    /\ ocr_reply.called /\ ~ocr_reply.raises
    /\ ocr_reply.error_message # ""
    /\ ocr_reply.text_annotations # <<>>
    /\ response.status = 500
    /\ response.text = ""

\* how many calls to a collaborator the handler made
Count(calls, name) == Cardinality({i \in DOMAIN calls : calls[i] = name})

\* the recommendation request got as far as calling find_similar_wines
FindSimilarWinesCalled ==
    /\ Served("wines_recommend") /\ model_service /\ ~Falsy(request)
    /\ preprocess_user_data(request.obj).err = "none"
    /\ model_reply.called /\ model_reply.kind = "ok"

\* a collaborator call of this request failed
ModelFailed == model_reply.called /\ model_reply.kind # "ok"
IndexFailed == index_reply.called /\ ~index_reply.ok
OcrFailed == ocr_reply.called /\ (ocr_reply.raises \/ ocr_reply.error_message # "")

\* C21 as stated: each call of find_similar_wines issues exactly one index
\* query; each request calls the model, the index and the OCR service at
\* most once each; after a collaborator call fails the request fails and no
\* further call is made.
C21_NoRetry ==
    (phase = "done"
        /\ route \in {"app_wines", "wines_legacy", "wines_recommend", "wines_score", "ocr"})
    => /\ \A c \in {"model", "index", "ocr"} : Count(response.calls, c) <= 1
       /\ FindSimilarWinesCalled => Count(response.calls, "index") = 1
       /\ ModelFailed
          => (response.kind = "error" /\ response.calls = <<"model">>)
       /\ IndexFailed
          => (response.kind = "error"
                /\ response.calls[Len(response.calls)] = "index")
       /\ OcrFailed
          => (response.kind = "error" /\ response.calls = <<"ocr">>)

\* a non-blank line that is not JSON or lacks "id" or "embedding"
Malformed(line) ==
    \/ line.text = "garbage"
    \/ line.text = "object" /\ ~({"id", "embedding"} \subseteq DOMAIN line.entry)

\* the URI is invalid, the download failed, or some line is malformed
LoadMustFail ==
    \/ ~load.gcs_uri.gs
    \/ Len(load.gcs_uri.path_parts) < 2
    \/ ~load.downloaded
    \/ \E i \in DOMAIN load.content : Malformed(load.content[i])

\* C23: the load is all-or-nothing.  When the URI is invalid, the download
\* fails or any non-blank line is malformed, constructing EmbeddingsService
\* raises and no store instance exists; otherwise the instance holds a key
\* for every record of the file (no line is skipped).  A store is never
\* present after a failed construction.
C23_LoadAllOrNothing ==
    /\ load.done
       => /\ LoadMustFail <=> (load.raised /\ phase = "failed")
          /\ load.raised => ~embeddings_service.present
          /\ ~load.raised
             => /\ phase = "loaded" /\ embeddings_service.present
                /\ \A i \in DOMAIN load.content :
                      load.content[i].text = "object"
                      => str(load.content[i].entry["id"])
                            \in DOMAIN embeddings_service.embeddings
    /\ phase = "failed" => ~embeddings_service.present

\* a good record followed by a line that is not JSON: the constructor raises
C23_Witness ==
    /\ load.done /\ load.raised
    /\ Len(load.content) = 2
    /\ ~Malformed(load.content[1]) /\ load.content[1].text = "object"
    /\ load.content[2].text = "garbage"
    /\ phase = "failed"
    /\ ~embeddings_service.present

\* C24 as stated: create_app loads the embedding store before any request is
\* served, so whenever the application it built handles a request its
\* WineService holds a loaded store.
C24_StoreLoadedAtStartup ==
    (app = "factory" /\ phase \in {"idle", "done"}) => embeddings_service.present

\* the positions of the requested list whose id is, or is not, in the store
PositionsInStore ==
    {i \in DOMAIN request.obj["wine_ids"] :
        request.obj["wine_ids"][i] \in DOMAIN embeddings_service.embeddings}
PositionsNotInStore == DOMAIN request.obj["wine_ids"] \ PositionsInStore

\* C26 as stated: get_embeddings logs found = the number of requested ids
\* that exist in the store and missing = the number that do not, for lists
\* that repeat an id too, with found + missing = requested, and raises no
\* error for misses.
C26_FoundAndMissingCounts ==
    Served("get_embeddings")
    => /\ response.kind = "return"
       /\ response.log.requested = Len(request.obj["wine_ids"])
       /\ response.log.found = Cardinality(PositionsInStore)
       /\ response.log.missing = Cardinality(PositionsNotInStore)
       /\ response.log.found + response.log.missing = response.log.requested

\* the request carries invalid input: no body, no user_data or no wine_ids
\* on /wines/score, or a mapping that lacks rating_mean or fails the schema
InvalidInput ==
    \/ /\ route \in {"app_wines", "wines_legacy", "wines_recommend", "wines_score"}
       /\ Falsy(request)
    \/ route = "wines_score" /\ ~ScoreRequestComplete
    \/ /\ route = "wines_recommend" /\ ~Falsy(request)
       /\ preprocess_user_data(request.obj).err # "none"
    \/ /\ route = "wines_score" /\ ScoreRequestComplete
       /\ preprocess_user_data(request.obj["user_data"]).err # "none"

\* C27: a request rejected with 400 for invalid input has made no call to
\* the model endpoint, the index or the embedding store.
C27_ValidationBeforeCalls ==
    (phase = "done" /\ InvalidInput /\ response.status = 400)
    => /\ response.calls = <<>>
       /\ ~model_reply.called
       /\ ~index_reply.called

\* a mapping with rating_mean that fails the schema, model service present
C27_Witness ==
    /\ Served("wines_recommend") /\ model_service
    /\ "rating_mean" \in DOMAIN request.obj
    /\ ~Validates(request.obj, USER_FEATURES_SCHEMA)
    /\ response.status = 400
    /\ response.calls = <<>>

\* C28 as stated: for every store the load can produce, has_embedding(id) is
\* true exactly when get_embedding(id) returns an embedding, exactly when
\* get_embeddings([id]) contains id; and get_total_count is the number of
\* distinct ids for which has_embedding is true.
C28_ReadsAgree ==
    Served("store_reads")
    => LET id == request.obj["wine_id"]
           r == response.scores
       IN  /\ r["has_embedding"] <=> ~r["get_embedding"].null
           /\ r["has_embedding"] <=> id \in DOMAIN r["get_embeddings"]
           /\ r["get_total_count"] =
                 Cardinality({w \in RequestedIds \cup {"7"} :
                                has_embedding(embeddings_service.embeddings, w)})

\* the embeddings service the application holds when it starts serving
StartupService ==
    IF app = "routes" THEN EmbeddingsService(DeployedStore) ELSE NoEmbeddingsService

\* C25: under every interleaving of the worker threads' steps the embedding
\* store keeps the mapping it had when serving started, and the response of
\* every finished request is the response its handler gives when it runs
\* alone on the same request with the same collaborator replies.
C25_NoInterference ==
    app \in {"factory", "routes"}
    => /\ embeddings_service = StartupService
       /\ \A w \in Workers :
             workers[w].pc = "done"
             => workers[w].response = Handle(workers[w], StartupService)

\* one thread has answered a score request with scores read from the store
\* while the other thread, past its model call, is about to read the same store
C25_Witness ==
    /\ workers["t1"].pc = "done"
    /\ workers["t1"].route = "wines_score"
    /\ workers["t1"].response.status = 200
    /\ DOMAIN workers["t1"].response.scores # {}
    /\ workers["t2"].pc = "store"
    /\ workers["t2"].model_reply.called

====
